---- MODULE Spec2Model ----
(***************************************************************************)
(* ShotMan: the versioned shot-file repository (core.py), and the part of  *)
(* the Tk front end (shotman.py) that drives it and keeps the per-shot     *)
(* metadata documents.                                                     *)
(*                                                                         *)
(* File names, file contents and error names are TLA+ strings; a string is *)
(* taken apart with Len and SubSeq, the way the code's regular expression, *)
(* endswith/startswith and f-strings take it apart.                        *)
(***************************************************************************)
EXTENDS Integers, Sequences, FiniteSets, TLC

VARIABLES dir_exists, files, templates, meta, orphans, all_shots, last

vars == <<dir_exists, files, templates, meta, orphans, all_shots, last>>

(***************************************************************************)
(* Bounds of the model.                                                    *)
(***************************************************************************)
\* outside the codec runs, duplicate is tried on versions 1..MaxVersion
MaxVersion == 1
\* the codec runs stop growing a directory at this many entries
MaxEntries == 2

\* the last version the two-digit field can hold (\d{2} in the pattern)
HighVersion == 99

(***************************************************************************)
(* Strings.                                                                *)
(***************************************************************************)
Min(a, b) == IF a <= b THEN a ELSE b

CharAt(s, i) == SubSeq(s, i, i)

\* str.endswith(suffix)
EndsWith(s, suffix) ==
    /\ Len(suffix) <= Len(s)
    /\ SubSeq(s, Len(s) - Len(suffix) + 1, Len(s)) = suffix

\* str.startswith(prefix)
StartsWith(s, prefix) ==
    /\ Len(prefix) <= Len(s)
    /\ SubSeq(s, 1, Len(prefix)) = prefix

Digits == "0123456789"

IsDigit(c) == \E d \in 0..9 : c = CharAt(Digits, d + 1)

DigitVal(c) == CHOOSE d \in 0..9 : c = CharAt(Digits, d + 1)

\* int(s) of a string of decimal digits
RECURSIVE ParseInt(_)
ParseInt(s) ==
    IF Len(s) = 0 THEN 0
    ELSE 10 * ParseInt(SubSeq(s, 1, Len(s) - 1)) + DigitVal(CharAt(s, Len(s)))

\* str(n) for n >= 0
RECURSIVE Dec(_)
Dec(n) ==
    IF n < 10 THEN CharAt(Digits, n + 1)
    ELSE Dec(n \div 10) \o CharAt(Digits, (n % 10) + 1)

\* f"{n:02d}": at least two digits, zero padded, never truncated
Format02d(n) == IF Len(Dec(n)) < 2 THEN "0" \o Dec(n) ELSE Dec(n)

(***************************************************************************)
(* Functions as dictionaries / directory tables.                           *)
(***************************************************************************)
Empty == [x \in {} |-> ""]

Put(f, k, v) == [x \in (DOMAIN f) \cup {k} |-> IF x = k THEN v ELSE f[x]]

Remove(f, k) == [x \in (DOMAIN f) \ {k} |-> f[x]]

Range(s) == {s[i] : i \in DOMAIN s}

(***************************************************************************)
(* core.py: the filename pattern of duplicate_shot.                        *)
(***************************************************************************)
BLEND == ".blend"

TEMPLATE_PREFIX == "cam_template_"

PLACEHOLDER == "BLENDER_FILE_PLACEHOLDER"

NoMatch == [matched |-> FALSE, base_name |-> "", version |-> ""]

\* the positions i at which "(.*)" may end so that the rest of s is
\* "_v", two digits, ".blend" and the end of the string
VersionSplits(s) ==
    {i \in 0..Len(s) :
        /\ Len(s) >= i + 4
        /\ SubSeq(s, i + 1, i + 2) = "_v"
        /\ IsDigit(CharAt(s, i + 3))
        /\ IsDigit(CharAt(s, i + 4))
        /\ SubSeq(s, i + 5, Len(s)) = BLEND}

\* variant: the base name ends at the first "_v" of the name
VersionMatchFirst(s) ==
    LET marks == {i \in 0..Len(s) : Len(s) >= i + 2 /\ SubSeq(s, i + 1, i + 2) = "_v"}
    IN  IF marks = {} THEN NoMatch
        ELSE LET i == CHOOSE j \in marks : \A k \in marks : j <= k
             IN  IF i \in VersionSplits(s)
                 THEN [matched |-> TRUE,
                       base_name |-> SubSeq(s, 1, i),
                       version |-> SubSeq(s, i + 3, i + 4)]
                 ELSE NoMatch

\* re.match(r"^(.*)_v(\d{2})\.blend$", s): the greedy group takes the
\* longest prefix that lets the rest match
VersionMatch(s) ==
    IF VersionSplits(s) = {} THEN NoMatch
    ELSE LET i == CHOOSE j \in VersionSplits(s) :
                      \A k \in VersionSplits(s) : k <= j
         IN  [matched |-> TRUE,
              base_name |-> SubSeq(s, 1, i),
              version |-> SubSeq(s, i + 3, i + 4)]

\* variant: the version written without zero padding
VersionedNameUnpadded(base_name, version) ==
    base_name \o "_v" \o Dec(version) \o BLEND

\* f"{base_name}_v{version:02d}.blend"
VersionedName(base_name, version) ==
    base_name \o "_v" \o Format02d(version) \o BLEND

(***************************************************************************)
(* The file system as the code sees it.  A shot directory is a record      *)
(* [exists, entries]: entries maps each entry name to the file's bytes.    *)
(* An I/O step can fail: open() of the destination, the transfer of the    *)
(* data (a prefix of the bytes has then reached the disk), copy2's final   *)
(* copystat, and os.remove.                                                *)
(***************************************************************************)
NoFault == [kind |-> "none", cut |-> 0]

\* how many bytes reach the disk when the transfer is cut short
PartialCuts == {0}

OpenFault == [kind |-> "open", cut |-> 0]

WriteFaults ==
    {NoFault, OpenFault} \cup {[kind |-> "data", cut |-> c] : c \in PartialCuts}

CopyFaults == WriteFaults \cup {[kind |-> "stat", cut |-> 0]}

RemoveFaults == {NoFault, [kind |-> "remove", cut |-> 0]}

\* open(path, 'w') followed by f.write(bytes), or shutil.copy2(src, path),
\* under the given fault: the entries afterwards
WriteEntry(entries, name, bytes, fault) ==
    CASE fault.kind = "open" -> entries
      [] fault.kind = "data" ->
            Put(entries, name, SubSeq(bytes, 1, Min(fault.cut, Len(bytes))))
      [] OTHER -> Put(entries, name, bytes)

Outcome(err, ret, dir) == [err |-> err, ret |-> ret, dir |-> dir]

\* os.makedirs(shot_directory, exist_ok=True)
makedirs(shot_directory) == [shot_directory EXCEPT !.exists = TRUE]

\* os.path.exists(os.path.join(shot_directory, filename))
path_exists(shot_directory, filename) ==
    shot_directory.exists /\ filename \in DOMAIN shot_directory.entries

(***************************************************************************)
(* Character order for sorted(): the code points of the characters that    *)
(* occur in the names of the model, in increasing order.                   *)
(***************************************************************************)
Alphabet == " .0123456789ABCDEFGHIJKLMNOPQRSTUVWXYZ_abcdefghijklmnopqrstuvwxyz"

Ord(c) == CHOOSE i \in 1..Len(Alphabet) : CharAt(Alphabet, i) = c

RECURSIVE StrLess(_, _)
StrLess(a, b) ==
    IF Len(b) = 0 THEN FALSE
    ELSE IF Len(a) = 0 THEN TRUE
    ELSE IF CharAt(a, 1) = CharAt(b, 1)
         THEN StrLess(SubSeq(a, 2, Len(a)), SubSeq(b, 2, Len(b)))
         ELSE Ord(CharAt(a, 1)) < Ord(CharAt(b, 1))

\* sorted(names) for a collection of distinct names
RECURSIVE Sorted(_)
Sorted(S) ==
    IF S = {} THEN << >>
    ELSE LET m == CHOOSE x \in S : \A y \in S \ {x} : StrLess(x, y)
         IN  <<m>> \o Sorted(S \ {m})

(***************************************************************************)
(* core.py: the Shot Repository.  Each operation yields its error (""     *)
(* when it returns normally), the value it returns and the directory it    *)
(* leaves behind.                                                          *)
(***************************************************************************)
\* variant: the template prefix is not filtered out
list_shots_unfiltered(shot_directory) ==
    IF ~shot_directory.exists THEN << >>
    ELSE Sorted({f \in DOMAIN shot_directory.entries : EndsWith(f, BLEND)})

list_shots(shot_directory) ==
    IF ~shot_directory.exists THEN << >>
    ELSE Sorted({f \in DOMAIN shot_directory.entries :
                    EndsWith(f, BLEND) /\ ~StartsWith(f, TEMPLATE_PREFIX)})

\* variant: no check that the shot exists already
create_new_shot_overwriting(base_name, shot_directory, fault) ==
    LET dir == makedirs(shot_directory)
        filename == base_name \o "_v01" \o BLEND
        written == [dir EXCEPT !.entries =
                       WriteEntry(@, filename, PLACEHOLDER, fault)]
    IN  IF fault.kind = "none"
        THEN Outcome("", filename, written)
        ELSE Outcome("IOError", "", written)

create_new_shot(base_name, shot_directory, fault) ==
    LET dir == makedirs(shot_directory)
        filename == base_name \o "_v01" \o BLEND
    IN  IF path_exists(dir, filename)
        THEN Outcome("FileExistsError", "", dir)
        ELSE LET written == [dir EXCEPT !.entries =
                                WriteEntry(@, filename, PLACEHOLDER, fault)]
             IN  IF fault.kind = "none"
                 THEN Outcome("", filename, written)
                 ELSE Outcome("IOError", "", written)

\* variant: no check that the destination exists already
create_new_shot_from_template_overwriting(base_name, template_path, tmpl, shot_directory, fault) ==
    LET dir == makedirs(shot_directory)
        new_shot_filename == base_name \o "_v01" \o BLEND
    IN  IF template_path \notin DOMAIN tmpl
        THEN Outcome("FileNotFoundError", "", dir)
        ELSE LET copied == [dir EXCEPT !.entries =
                               WriteEntry(@, new_shot_filename,
                                          tmpl[template_path], fault)]
             IN  IF fault.kind = "none"
                 THEN Outcome("", new_shot_filename, copied)
                 ELSE Outcome("Exception", "", copied)

\* variant: the new shot gets the placeholder content of a plain create
create_new_shot_from_template_placeholder(base_name, template_path, tmpl, shot_directory, fault) ==
    LET dir == makedirs(shot_directory)
        new_shot_filename == base_name \o "_v01" \o BLEND
    IN  IF template_path \notin DOMAIN tmpl
        THEN Outcome("FileNotFoundError", "", dir)
        ELSE IF path_exists(dir, new_shot_filename)
        THEN Outcome("FileExistsError", "", dir)
        ELSE LET copied == [dir EXCEPT !.entries =
                               WriteEntry(@, new_shot_filename, PLACEHOLDER, fault)]
             IN  IF fault.kind = "none"
                 THEN Outcome("", new_shot_filename, copied)
                 ELSE Outcome("Exception", "", copied)

create_new_shot_from_template(base_name, template_path, tmpl, shot_directory, fault) ==
    LET dir == makedirs(shot_directory)
        new_shot_filename == base_name \o "_v01" \o BLEND
    IN  IF template_path \notin DOMAIN tmpl
        THEN Outcome("FileNotFoundError", "", dir)
        ELSE IF path_exists(dir, new_shot_filename)
        THEN Outcome("FileExistsError", "", dir)
        ELSE LET copied == [dir EXCEPT !.entries =
                               WriteEntry(@, new_shot_filename,
                                          tmpl[template_path], fault)]
             IN  IF fault.kind = "none"
                 THEN Outcome("", new_shot_filename, copied)
                 ELSE Outcome("Exception", "", copied)

\* variant: a taken target makes the copy go to the next free version
RECURSIVE FreeVersion(_, _, _)
FreeVersion(base_name, version, shot_directory) ==
    IF path_exists(shot_directory, VersionedName(base_name, version))
    THEN FreeVersion(base_name, version + 1, shot_directory)
    ELSE version

duplicate_shot_searching(original_filename, shot_directory, fault) ==
    LET match == VersionMatch(original_filename)
    IN  IF ~match.matched
        THEN Outcome("ValueError", "", shot_directory)
        ELSE IF ~path_exists(shot_directory, original_filename)
        THEN Outcome("FileNotFoundError", "", shot_directory)
        ELSE LET new_filename ==
                    VersionedName(match.base_name,
                        FreeVersion(match.base_name,
                                    ParseInt(match.version) + 1, shot_directory))
                 copied == [shot_directory EXCEPT !.entries =
                        WriteEntry(@, new_filename,
                                   shot_directory.entries[original_filename],
                                   fault)]
             IN  IF fault.kind = "none"
                 THEN Outcome("", new_filename, copied)
                 ELSE Outcome("Exception", "", copied)

\* variant: the source is looked up before the name is matched
duplicate_shot_lookup_first(original_filename, shot_directory, fault) ==
    IF ~path_exists(shot_directory, original_filename)
    THEN Outcome("FileNotFoundError", "", shot_directory)
    ELSE LET match == VersionMatch(original_filename)
         IN  IF ~match.matched
             THEN Outcome("ValueError", "", shot_directory)
             ELSE LET new_filename ==
                         VersionedName(match.base_name,
                                       ParseInt(match.version) + 1)
                  IN  IF path_exists(shot_directory, new_filename)
                      THEN Outcome("FileExistsError", "", shot_directory)
                      ELSE IF fault.kind = "none"
                      THEN Outcome("", new_filename,
                             [shot_directory EXCEPT !.entries =
                                WriteEntry(@, new_filename,
                                   shot_directory.entries[original_filename],
                                   fault)])
                      ELSE Outcome("Exception", "",
                             [shot_directory EXCEPT !.entries =
                                WriteEntry(@, new_filename,
                                   shot_directory.entries[original_filename],
                                   fault)])

\* variant: the target is looked up before the source
duplicate_shot_target_first(original_filename, shot_directory, fault) ==
    LET match == VersionMatch(original_filename)
    IN  IF ~match.matched
        THEN Outcome("ValueError", "", shot_directory)
        ELSE
        LET new_filename == VersionedName(match.base_name,
                                          ParseInt(match.version) + 1)
        IN  IF path_exists(shot_directory, new_filename)
            THEN Outcome("FileExistsError", "", shot_directory)
            ELSE IF ~path_exists(shot_directory, original_filename)
            THEN Outcome("FileNotFoundError", "", shot_directory)
            ELSE LET copied == [shot_directory EXCEPT !.entries =
                        WriteEntry(@, new_filename,
                                   shot_directory.entries[original_filename],
                                   fault)]
                 IN  IF fault.kind = "none"
                     THEN Outcome("", new_filename, copied)
                     ELSE Outcome("Exception", "", copied)

\* variant: the source is taken to be there because it was listed
duplicate_shot_trusting(original_filename, shot_directory, fault) ==
    LET match == VersionMatch(original_filename)
    IN  IF ~match.matched
        THEN Outcome("ValueError", "", shot_directory)
        ELSE
        LET new_filename == VersionedName(match.base_name,
                                          ParseInt(match.version) + 1)
        IN  IF path_exists(shot_directory, new_filename)
            THEN Outcome("FileExistsError", "", shot_directory)
            ELSE IF ~path_exists(shot_directory, original_filename)
            THEN Outcome("Exception", "", shot_directory)
            ELSE LET copied == [shot_directory EXCEPT !.entries =
                        WriteEntry(@, new_filename,
                                   shot_directory.entries[original_filename],
                                   fault)]
                 IN  IF fault.kind = "none"
                     THEN Outcome("", new_filename, copied)
                     ELSE Outcome("Exception", "", copied)

\* variant: the source is renamed to the next version
duplicate_shot_moving(original_filename, shot_directory, fault) ==
    LET match == VersionMatch(original_filename)
    IN  IF ~match.matched
        THEN Outcome("ValueError", "", shot_directory)
        ELSE
        LET new_filename == VersionedName(match.base_name,
                                          ParseInt(match.version) + 1)
        IN  IF ~path_exists(shot_directory, original_filename)
            THEN Outcome("FileNotFoundError", "", shot_directory)
            ELSE IF path_exists(shot_directory, new_filename)
            THEN Outcome("FileExistsError", "", shot_directory)
            ELSE IF fault.kind = "none"
            THEN Outcome("", new_filename,
                         [shot_directory EXCEPT !.entries =
                             Remove(Put(@, new_filename,
                                        shot_directory.entries[original_filename]),
                                    original_filename)])
            ELSE Outcome("Exception", "", shot_directory)

duplicate_shot(original_filename, shot_directory, fault) ==
    LET match == VersionMatch(original_filename)
    IN  IF ~match.matched
        THEN Outcome("ValueError", "", shot_directory)
        ELSE
        LET base_name == match.base_name
            current_version == ParseInt(match.version)
            next_version == current_version + 1
            new_filename == VersionedName(base_name, next_version)
        IN  IF ~path_exists(shot_directory, original_filename)
            THEN Outcome("FileNotFoundError", "", shot_directory)
            ELSE IF path_exists(shot_directory, new_filename)
            THEN Outcome("FileExistsError", "", shot_directory)
            ELSE LET copied == [shot_directory EXCEPT !.entries =
                        WriteEntry(@, new_filename,
                                   shot_directory.entries[original_filename],
                                   fault)]
                 IN  IF fault.kind = "none"
                     THEN Outcome("", new_filename, copied)
                     ELSE Outcome("Exception", "", copied)

\* variant: removing a file that is not there is not an error
delete_shot_quiet(filename, shot_directory, fault) ==
    IF ~path_exists(shot_directory, filename)
    THEN Outcome("", "", shot_directory)
    ELSE IF fault.kind = "none"
    THEN Outcome("", "", [shot_directory EXCEPT !.entries = Remove(@, filename)])
    ELSE Outcome("Exception", "", shot_directory)

delete_shot(filename, shot_directory, fault) ==
    IF ~path_exists(shot_directory, filename)
    THEN Outcome("FileNotFoundError", "", shot_directory)
    ELSE IF fault.kind = "none"
    THEN Outcome("", "", [shot_directory EXCEPT !.entries = Remove(@, filename)])
    ELSE Outcome("Exception", "", shot_directory)

(***************************************************************************)
(* shotman.py: the Metadata Store.  The store maps a key (the shot's file  *)
(* name without its extension) to the backing JSON file: [ok, text], where *)
(* ok says that the file was written to its end and text is the JSON       *)
(* object written, as the set of its members <<key, value>>, both in their *)
(* escaped form.                                                           *)
(***************************************************************************)
\* a backing file cut short by a failed write
Corrupt == [ok |-> FALSE, text |-> {}]

\* json.encoder: the characters written as a backslash and a letter
JsonEscapes == {<<"\"", "\"">>, <<"\\", "\\">>, <<"\n", "n">>, <<"\t", "t">>}

\* json.decoder: the letters accepted after a backslash
JsonUnescapes == JsonEscapes \cup {<<"/", "/">>}

\* a string written as it is
encode_basestring_raw(s) == s

\* a string as json.dump writes it between the quotes
RECURSIVE encode_basestring(_)
encode_basestring(s) ==
    IF s = "" THEN ""
    ELSE LET c == CharAt(s, 1)
         IN  (IF \E e \in JsonEscapes : e[1] = c
              THEN "\\" \o (CHOOSE e \in JsonEscapes : e[1] = c)[2]
              ELSE c) \o encode_basestring(SubSeq(s, 2, Len(s)))

\* the string json.load reads from between the quotes: [ok, s], ok false
\* when the text is no JSON string
RECURSIVE scanstring(_)
scanstring(t) ==
    IF t = "" THEN [ok |-> TRUE, s |-> ""]
    ELSE IF CharAt(t, 1) = "\""  THEN [ok |-> FALSE, s |-> ""]
    ELSE IF CharAt(t, 1) = "\\"
    THEN IF Len(t) >= 2 /\ \E e \in JsonUnescapes : e[2] = CharAt(t, 2)
         THEN LET rest == scanstring(SubSeq(t, 3, Len(t)))
              IN  [ok |-> rest.ok,
                   s |-> (CHOOSE e \in JsonUnescapes : e[2] = CharAt(t, 2))[1]
                            \o rest.s]
         ELSE [ok |-> FALSE, s |-> ""]
    ELSE LET rest == scanstring(SubSeq(t, 2, Len(t)))
         IN  [ok |-> rest.ok, s |-> CharAt(t, 1) \o rest.s]

\* json.dump(data, f, indent=4) of a dictionary of strings
json_dump(data) ==
    {<<encode_basestring(k), encode_basestring(data[k])>> : k \in DOMAIN data}

\* json.load(f): [ok, doc], ok false for a JSONDecodeError
json_load(text) ==
    LET members == {<<scanstring(m[1]), scanstring(m[2])>> : m \in text}
    IN  IF \A m \in members : m[1].ok /\ m[2].ok
        THEN [ok |-> TRUE,
              doc |-> [k \in {m[1].s : m \in members} |->
                         (CHOOSE m \in members : m[1].s = k)[2].s]]
        ELSE [ok |-> FALSE, doc |-> Empty]

\* os.path.splitext(filename)[0]: cut at the last dot, unless only dots
\* precede it
splitext_root(filename) ==
    LET dots == {i \in 1..Len(filename) : CharAt(filename, i) = "."}
    IN  IF dots = {} THEN filename
        ELSE LET i == CHOOSE j \in dots : \A k \in dots : k <= j
             IN  IF \A k \in 1..(i - 1) : CharAt(filename, k) = "."
                 THEN filename
                 ELSE SubSeq(filename, 1, i - 1)

\* the key of _get_custom_metadata_path(filename)
_get_custom_metadata_path(filename) == splitext_root(filename)

ErrorRecord == [error |-> "Corrupted custom metadata file."]

\* a load that takes a file it cannot parse for no file
_load_custom_metadata_lenient(filename, store) ==
    LET meta_path == _get_custom_metadata_path(filename)
    IN  IF meta_path \in DOMAIN store
        THEN LET parsed == json_load(store[meta_path].text)
             IN  IF store[meta_path].ok /\ parsed.ok
                 THEN parsed.doc
                 ELSE Empty
        ELSE Empty

_load_custom_metadata(filename, store) ==
    LET meta_path == _get_custom_metadata_path(filename)
    IN  IF meta_path \in DOMAIN store
        THEN LET parsed == json_load(store[meta_path].text)
             IN  IF store[meta_path].ok /\ parsed.ok
                 THEN parsed.doc
                 ELSE ErrorRecord
        ELSE Empty

\* a save that updates the fields of the record already stored
_save_custom_metadata_merging(filename, data, store, fault) ==
    LET meta_path == _get_custom_metadata_path(filename)
        old == _load_custom_metadata(filename, store)
        merged == [k \in DOMAIN old \cup DOMAIN data |->
                      IF k \in DOMAIN data THEN data[k] ELSE old[k]]
    IN  CASE fault.kind = "none" ->
                [ok |-> TRUE,
                 store |-> Put(store, meta_path,
                               [ok |-> TRUE, text |-> json_dump(merged)])]
          [] fault.kind = "open" -> [ok |-> FALSE, store |-> store]
          [] OTHER -> [ok |-> FALSE, store |-> Put(store, meta_path, Corrupt)]

\* yields [ok, store]: the value returned and the store afterwards
_save_custom_metadata(filename, data, store, fault) ==
    LET meta_path == _get_custom_metadata_path(filename)
    IN  CASE fault.kind = "none" ->
                [ok |-> TRUE,
                 store |-> Put(store, meta_path,
                               [ok |-> TRUE, text |-> json_dump(data)])]
          [] fault.kind = "open" -> [ok |-> FALSE, store |-> store]
          [] OTHER -> [ok |-> FALSE, store |-> Put(store, meta_path, Corrupt)]

_delete_custom_metadata(filename, store, fault) ==
    LET meta_path == _get_custom_metadata_path(filename)
    IN  IF meta_path \in DOMAIN store
        THEN IF fault.kind = "none"
             THEN [ok |-> TRUE, store |-> Remove(store, meta_path)]
             ELSE [ok |-> FALSE, store |-> store]
        ELSE [ok |-> FALSE, store |-> store]

(***************************************************************************)
(* Inputs.                                                                 *)
(***************************************************************************)
\* base names given to create: plain, one that itself ends like a version
\* suffix, one with the template prefix, one the front end rejects
BaseNames == {"A"}

\* base names the front end accepts: plain, with digits, and one that
\* begins like a template file
AcceptedNames == {"A", "SHOT_010", "cam_template_x"}

\* base names typed into the front end: a plain one, and one it rejects
TypedNames == {"A", "a b"}

\* base names for the codec: plain, ending like a version suffix, made of
\* the pattern's own separator, holding the extension
CodecBases == {"A", "B_v01", "_v", "x.blend_v07"}

CodecVersions == 1..HighVersion

DEFAULT_TEMPLATE == "templates/cam_template_default.blend"

ANIM_TEMPLATE == "templates/cam_template_anim.blend"

TemplatePaths == {DEFAULT_TEMPLATE, ANIM_TEMPLATE}

\* entries found in a shot directory that was filled before the tool runs
OldEntries ==
    [x \in {"notes.txt", "cam_template_default.blend"} |-> "OLD"]

\* names a caller may pass although no such file exists
AbsentNames == {"A_v01.blend", "badname.blend", "A_v1.blend"}

\* the dictionaries the edit dialog can produce (save_and_close)
EditedRecords ==
    {[status |-> "Final", assigned_artist |-> "bob", due_date |-> "", notes |-> ""]}

\* the fields the edit dialog knows
RecognizedFields == {"status", "assigned_artist", "due_date", "notes"}

PlainRecord ==
    [status |-> "WIP", assigned_artist |-> "bob", due_date |-> "", notes |-> ""]

\* the dictionaries handed to the store directly: the recognized fields
\* alone, with text that JSON escapes, and with further fields
StoreRecords ==
    {PlainRecord,
     [PlainRecord EXCEPT !.status = "Final", !.notes = "say \"hi\"\n"],
     Put(Put(PlainRecord, "render\\path", "C:\\shots\\"), "tag/s", "a/b\t"),
     Put(PlainRecord, "error", "x")}

\* the shot file names whose records the store is asked for
StoreNames == {"A_v01.blend", "A_v02.blend"}

\* the versions on which duplicate is tried
WithinVersionBound(filename) ==
    LET match == VersionMatch(filename)
    IN  match.matched => ParseInt(match.version) <= MaxVersion

(***************************************************************************)
(* State.                                                                  *)
(***************************************************************************)
ShotDir == [exists |-> dir_exists, entries |-> files]

\* what the latest call was, and what it reported, returned or displayed
Last(op, arg, err, ret, listing) ==
    [op |-> op, arg |-> arg, err |-> err, ret |-> ret, listing |-> listing,
     doc |-> Empty, fault |-> "none", path |-> "", prior |-> Empty]

\* the key of the record that a removed shot file leaves behind
Orphaned(filename, dir, store) ==
    IF /\ filename \in Range(list_shots(dir))
       /\ _get_custom_metadata_path(filename) \in DOMAIN store
    THEN {_get_custom_metadata_path(filename)}
    ELSE {}

Init ==
    /\ \/ dir_exists = FALSE /\ files = Empty
       \/ dir_exists = TRUE /\ files \in {Empty, OldEntries}
    /\ templates = [x \in {DEFAULT_TEMPLATE} |-> "TPL"]
    /\ meta = Empty
    /\ orphans = {}
    /\ all_shots = << >>
    /\ last = Last("init", "", "", "", << >>)

(***************************************************************************)
(* The repository operations, called directly (the API of core.py).        *)
(***************************************************************************)
List ==
    /\ last' = Last("list", "", "", "", list_shots(ShotDir))
    /\ UNCHANGED <<dir_exists, files, templates, meta, orphans, all_shots>>

Create(base_name, fault) ==
    LET r == create_new_shot(base_name, ShotDir, fault)
    IN  /\ dir_exists' = r.dir.exists
        /\ files' = r.dir.entries
        /\ last' = [Last("create", base_name, r.err, r.ret, << >>)
                        EXCEPT !.fault = fault.kind]
        /\ UNCHANGED <<templates, meta, orphans, all_shots>>

CreateFromTemplate(base_name, template_path, fault) ==
    LET r == create_new_shot_from_template(base_name, template_path,
                                           templates, ShotDir, fault)
    IN  /\ dir_exists' = r.dir.exists
        /\ files' = r.dir.entries
        /\ last' = [Last("create_from_template", base_name, r.err, r.ret, << >>)
                        EXCEPT !.fault = fault.kind, !.path = template_path]
        /\ UNCHANGED <<templates, meta, orphans, all_shots>>

Duplicate(filename, fault) ==
    LET r == duplicate_shot(filename, ShotDir, fault)
    IN  /\ dir_exists' = r.dir.exists
        /\ files' = r.dir.entries
        /\ last' = [Last("duplicate", filename, r.err, r.ret, << >>)
                        EXCEPT !.fault = fault.kind]
        /\ UNCHANGED <<templates, meta, orphans, all_shots>>

Delete(filename, fault) ==
    LET r == delete_shot(filename, ShotDir, fault)
    IN  /\ dir_exists' = r.dir.exists
        /\ files' = r.dir.entries
        /\ orphans' = IF r.err = ""
                      THEN orphans \cup Orphaned(filename, ShotDir, meta)
                      ELSE orphans
        /\ last' = [Last("delete", filename, r.err, r.ret, << >>)
                        EXCEPT !.fault = fault.kind]
        /\ UNCHANGED <<templates, meta, all_shots>>

(***************************************************************************)
(* shotman.py: the front end.  all_shots is the listing of the latest      *)
(* refresh(); the selection is an entry of the list box, which shows       *)
(* entries of all_shots.                                                   *)
(***************************************************************************)
\* re.match(r"^[a-zA-Z0-9_]+$", base_name)
ValidShotName(base_name) ==
    /\ Len(base_name) > 0
    /\ \A i \in 1..Len(base_name) :
          \E j \in 3..Len(Alphabet) :
              /\ CharAt(Alphabet, j) = CharAt(base_name, i)

\* module start-up and ShotManagerGUI.__init__: ensure_shot_directories_exist
\* and the first refresh()
Startup ==
    /\ dir_exists' = TRUE
    /\ all_shots' = list_shots([ShotDir EXCEPT !.exists = TRUE])
    /\ last' = Last("startup", "", "", "", << >>)
    /\ UNCHANGED <<files, templates, meta, orphans>>

Refresh ==
    /\ dir_exists
    /\ all_shots' = list_shots(ShotDir)
    /\ last' = Last("refresh", "", "", "", list_shots(ShotDir))
    /\ UNCHANGED <<dir_exists, files, templates, meta, orphans>>

\* create_shot.on_create
OnCreate(base_name, template_path, fault) ==
    /\ dir_exists
    /\ IF ~ValidShotName(base_name)
       THEN /\ last' = Last("on_create", base_name, "Invalid Name", "", << >>)
            /\ UNCHANGED <<dir_exists, files, all_shots>>
       ELSE IF template_path \notin DOMAIN templates
       THEN /\ last' = Last("on_create", base_name, "Missing Template", "", << >>)
            /\ UNCHANGED <<dir_exists, files, all_shots>>
       ELSE LET r == create_new_shot_from_template(base_name, template_path,
                                                   templates, ShotDir, fault)
            IN  /\ dir_exists' = r.dir.exists
                /\ files' = r.dir.entries
                /\ all_shots' = IF r.err = "" THEN list_shots(r.dir)
                                ELSE all_shots
                /\ last' = Last("on_create", base_name, r.err, r.ret, << >>)
    /\ UNCHANGED <<templates, meta, orphans>>

\* a duplicate that also copies the source's metadata record to the new
\* version
DuplicateSelectedCopyingRecord(selected, fault) ==
    /\ selected \in Range(all_shots)
    /\ VersionMatch(selected).matched
    /\ LET r == duplicate_shot(selected, ShotDir, fault)
           key == _get_custom_metadata_path(selected)
       IN  /\ dir_exists' = r.dir.exists
           /\ files' = r.dir.entries
           /\ all_shots' = IF r.err = "" THEN list_shots(r.dir) ELSE all_shots
           /\ meta' = IF r.err = "" /\ key \in DOMAIN meta
                      THEN Put(meta, _get_custom_metadata_path(r.ret), meta[key])
                      ELSE meta
           /\ last' = Last("duplicate_selected", selected, r.err, r.ret, << >>)
    /\ UNCHANGED <<templates, orphans>>

DuplicateSelected(selected, fault) ==
    /\ selected \in Range(all_shots)
    /\ IF ~VersionMatch(selected).matched
       THEN /\ last' = Last("duplicate_selected", selected,
                            "Invalid Shot Name", "", << >>)
            /\ UNCHANGED <<dir_exists, files, all_shots>>
       ELSE LET r == duplicate_shot(selected, ShotDir, fault)
            IN  /\ dir_exists' = r.dir.exists
                /\ files' = r.dir.entries
                /\ all_shots' = IF r.err = "" THEN list_shots(r.dir)
                                ELSE all_shots
                /\ last' = Last("duplicate_selected", selected, r.err, r.ret,
                                << >>)
    /\ UNCHANGED <<templates, meta, orphans>>

\* variant: the metadata record is removed before the shot file
DeleteSelectedRecordFirst(selected, fault, meta_fault) ==
    /\ selected \in Range(all_shots)
    /\ LET r == delete_shot(selected, ShotDir, fault)
           m == _delete_custom_metadata(selected, meta, meta_fault)
       IN  /\ meta' = m.store
           /\ dir_exists' = r.dir.exists
           /\ files' = r.dir.entries
           /\ orphans' =
                 IF _get_custom_metadata_path(selected) \in DOMAIN m.store
                 THEN IF r.err = ""
                      THEN orphans \cup Orphaned(selected, ShotDir, meta)
                      ELSE orphans
                 ELSE orphans \ {_get_custom_metadata_path(selected)}
           /\ all_shots' = IF r.err = "" THEN list_shots(r.dir) ELSE all_shots
           /\ last' = Last("delete_selected", selected, r.err, "", << >>)
    /\ UNCHANGED templates

\* delete_selected, the confirmation answered with yes
DeleteSelected(selected, fault, meta_fault) ==
    /\ selected \in Range(all_shots)
    /\ LET r == delete_shot(selected, ShotDir, fault)
           m == _delete_custom_metadata(selected, meta, meta_fault)
       IN  IF r.err = ""
           THEN /\ dir_exists' = r.dir.exists
                /\ files' = r.dir.entries
                /\ meta' = m.store
                /\ orphans' =
                      IF _get_custom_metadata_path(selected) \in DOMAIN m.store
                      THEN orphans \cup Orphaned(selected, ShotDir, meta)
                      ELSE orphans \ {_get_custom_metadata_path(selected)}
                /\ all_shots' = list_shots(r.dir)
                /\ last' = Last("delete_selected", selected, "", "", << >>)
           ELSE /\ last' = Last("delete_selected", selected, r.err, "", << >>)
                /\ UNCHANGED <<dir_exists, files, meta, orphans, all_shots>>
    /\ UNCHANGED templates

NO_CUSTOM_METADATA == "No custom metadata."

\* update_metadata, "if custom_meta:": the heading under which the pane
\* lists the items of a dictionary that is not empty, or the line it shows
\* instead
custom_metadata_section(custom_meta) ==
    IF custom_meta # Empty THEN "--- Custom Metadata ---"
    ELSE NO_CUSTOM_METADATA

\* update_metadata: what the metadata pane shows for the selection
UpdateMetadata(selected) ==
    /\ selected \in Range(all_shots)
    /\ last' = IF path_exists(ShotDir, selected)
               THEN LET custom_meta == _load_custom_metadata(selected, meta)
                    IN  [Last("update_metadata", selected, "",
                              custom_metadata_section(custom_meta), << >>)
                           EXCEPT !.doc = custom_meta]
               ELSE Last("update_metadata", selected, "", "", << >>)
    /\ UNCHANGED <<dir_exists, files, templates, meta, orphans, all_shots>>

\* variant: the dialog's values are put into the record that was loaded
EditSaveKeepingFields(selected, new_meta, fault) ==
    /\ selected \in Range(all_shots)
    /\ LET current_meta == _load_custom_metadata(selected, meta)
           key == _get_custom_metadata_path(selected)
           updated == [f \in DOMAIN current_meta \cup DOMAIN new_meta |->
                          IF f \in DOMAIN new_meta THEN new_meta[f]
                          ELSE current_meta[f]]
       IN  IF "error" \in DOMAIN current_meta
           THEN /\ last' = Last("edit_save", selected, "Metadata Error", "",
                                << >>)
                /\ UNCHANGED <<meta, orphans>>
           ELSE LET w == _save_custom_metadata(selected, updated, meta, fault)
                IN  /\ meta' = w.store
                    /\ orphans' =
                          IF key \notin DOMAIN w.store \/ w.store = meta
                          THEN orphans
                          ELSE IF path_exists(ShotDir, selected)
                          THEN orphans \ {key}
                          ELSE orphans \cup {key}
                    /\ last' = [Last("edit_save", selected,
                                     IF w.ok THEN "" ELSE "Error Saving Metadata",
                                     "", << >>)
                                  EXCEPT !.doc = new_meta, !.prior = current_meta]
    /\ UNCHANGED <<dir_exists, files, templates, all_shots>>

\* variant: the dialog opens on whatever was loaded and saves over it
EditSaveUnchecked(selected, new_meta, fault) ==
    /\ selected \in Range(all_shots)
    /\ LET key == _get_custom_metadata_path(selected)
           w == _save_custom_metadata(selected, new_meta, meta, fault)
       IN  /\ meta' = w.store
           /\ orphans' =
                 IF key \notin DOMAIN w.store \/ w.store = meta
                 THEN orphans
                 ELSE IF path_exists(ShotDir, selected)
                 THEN orphans \ {key}
                 ELSE orphans \cup {key}
           /\ last' = [Last("edit_save", selected,
                            IF w.ok THEN "" ELSE "Error Saving Metadata",
                            "", << >>)
                         EXCEPT !.doc = new_meta]
    /\ UNCHANGED <<dir_exists, files, templates, all_shots>>

\* edit_custom_metadata_for_selected, closed with Save (save_and_close)
EditSave(selected, new_meta, fault) ==
    /\ selected \in Range(all_shots)
    /\ LET current_meta == _load_custom_metadata(selected, meta)
           key == _get_custom_metadata_path(selected)
       IN  IF "error" \in DOMAIN current_meta
           THEN /\ last' = Last("edit_save", selected, "Metadata Error", "",
                                << >>)
                /\ UNCHANGED <<meta, orphans>>
           ELSE LET w == _save_custom_metadata(selected, new_meta, meta, fault)
                IN  /\ meta' = w.store
                    /\ orphans' =
                          IF key \notin DOMAIN w.store \/ w.store = meta
                          THEN orphans
                          ELSE IF path_exists(ShotDir, selected)
                          THEN orphans \ {key}
                          ELSE orphans \cup {key}
                    /\ last' = [Last("edit_save", selected,
                                     IF w.ok THEN "" ELSE "Error Saving Metadata",
                                     "", << >>)
                                  EXCEPT !.doc = new_meta, !.prior = current_meta]
    /\ UNCHANGED <<dir_exists, files, templates, all_shots>>

\* edit_custom_metadata_for_selected, closed with Cancel (cancel_and_close)
EditCancel(selected) ==
    /\ selected \in Range(all_shots)
    /\ last' = Last("edit_cancel", selected,
                    IF "error" \in DOMAIN _load_custom_metadata(selected, meta)
                    THEN "Metadata Error" ELSE "",
                    "", << >>)
    /\ UNCHANGED <<dir_exists, files, templates, meta, orphans, all_shots>>

(***************************************************************************)
(* cli.py: the command line.  The script calls the repository operations   *)
(* with the command's argument alone; a call that gives fewer arguments    *)
(* than the def line requires raises TypeError before the body runs, and   *)
(* the uncaught exception ends the script.  Nothing is printed.            *)
(***************************************************************************)
\* the parameters of the def lines of core.py, none of which has a default
RequiredArgs ==
    [create_new_shot |-> 2, list_shots |-> 1, duplicate_shot |-> 2, delete_shot |-> 2]

\* the arguments the script passes
PassedArgs ==
    [create_new_shot |-> 1, list_shots |-> 0, duplicate_shot |-> 1, delete_shot |-> 1]

\* one call of the script: the outcome of body when the arguments bind
cli_call(function, body, shot_directory) ==
    IF PassedArgs[function] < RequiredArgs[function]
    THEN Outcome("TypeError", "", shot_directory)
    ELSE body

\* args: [create, list, duplicate, delete], "" or FALSE for an option that
\* is not given; the calls are made in the script's order until one raises
cli(args, shot_directory) ==
    LET created ==
            IF args.create # ""
            THEN cli_call("create_new_shot",
                          create_new_shot(args.create, shot_directory, NoFault),
                          shot_directory)
            ELSE Outcome("", "", shot_directory)
        listed ==
            IF created.err = "" /\ args.list
            THEN cli_call("list_shots", Outcome("", "", created.dir), created.dir)
            ELSE created
        duplicated ==
            IF listed.err = "" /\ args.duplicate # ""
            THEN cli_call("duplicate_shot",
                          duplicate_shot(args.duplicate, listed.dir, NoFault),
                          listed.dir)
            ELSE listed
    IN  IF duplicated.err = "" /\ args.delete # ""
        THEN cli_call("delete_shot",
                      delete_shot(args.delete, duplicated.dir, NoFault),
                      duplicated.dir)
        ELSE duplicated

NoArgs == [create |-> "", list |-> FALSE, duplicate |-> "", delete |-> ""]

\* the command lines tried: one command each
CliCommands(names) ==
    {[NoArgs EXCEPT !.create = b] : b \in BaseNames}
        \cup {[NoArgs EXCEPT !.list = TRUE]}
        \cup {[NoArgs EXCEPT !.duplicate = n] : n \in names}
        \cup {[NoArgs EXCEPT !.delete = n] : n \in names}

\* the command of a command line and its argument
CliCommandName(args) ==
    IF args.create # "" THEN "cli_create"
    ELSE IF args.list THEN "cli_list"
    ELSE IF args.duplicate # "" THEN "cli_duplicate"
    ELSE "cli_delete"

CliArgument(args) ==
    IF args.create # "" THEN args.create
    ELSE IF args.list THEN ""
    ELSE IF args.duplicate # "" THEN args.duplicate
    ELSE args.delete

\* python cli.py <args>: ret is what the script prints
Cli(args) ==
    LET r == cli(args, ShotDir)
    IN  /\ dir_exists' = r.dir.exists
        /\ files' = r.dir.entries
        /\ last' = Last(CliCommandName(args), CliArgument(args), r.err, "", << >>)
        /\ UNCHANGED <<templates, meta, orphans, all_shots>>

(***************************************************************************)
(* Another process working on the shot directory between a listing and the *)
(* call that uses it: what os.path.exists finds has changed meanwhile.     *)
(***************************************************************************)
\* the names another process removes or creates
ExternalNames == {"A_v" \o Format02d(k) \o BLEND : k \in 1..(MaxVersion + 1)}

ExternalRemove(filename) ==
    /\ path_exists(ShotDir, filename)
    /\ files' = Remove(files, filename)
    /\ orphans' = orphans \cup Orphaned(filename, ShotDir, meta)
    /\ last' = Last("external_remove", filename, "", "", << >>)
    /\ UNCHANGED <<dir_exists, templates, meta, all_shots>>

ExternalCreate(filename) ==
    /\ dir_exists
    /\ ~path_exists(ShotDir, filename)
    /\ files' = Put(files, filename, "EXT")
    /\ last' = Last("external_create", filename, "", "", << >>)
    /\ UNCHANGED <<dir_exists, templates, meta, orphans, all_shots>>

(***************************************************************************)
(* shotman.py: the listing engine.  _filter_shots narrows all_shots by the *)
(* search entry and _sort_files orders what is left by the sort mode; the  *)
(* outcome is what the list box shows.                                     *)
(***************************************************************************)
UPPERCASE == "ABCDEFGHIJKLMNOPQRSTUVWXYZ"

LOWERCASE == "abcdefghijklmnopqrstuvwxyz"

\* str.lower()
RECURSIVE lower(_)
lower(s) ==
    IF s = "" THEN ""
    ELSE LET c == CharAt(s, 1)
         IN  (IF \E i \in 1..26 : CharAt(UPPERCASE, i) = c
              THEN CharAt(LOWERCASE, CHOOSE i \in 1..26 : CharAt(UPPERCASE, i) = c)
              ELSE c) \o lower(SubSeq(s, 2, Len(s)))

\* sub in s
Contains(sub, s) ==
    \/ sub = ""
    \/ \E i \in 1..(Len(s) - Len(sub) + 1) : SubSeq(s, i, i + Len(sub) - 1) = sub

\* the positions at which r"_v\d+\.blend$" matches
VersionSuffixStarts(filename) ==
    {i \in 1..Len(filename) :
        /\ Len(filename) >= i + 8
        /\ SubSeq(filename, i, i + 1) = "_v"
        /\ EndsWith(filename, BLEND)
        /\ \A j \in (i + 2)..(Len(filename) - Len(BLEND)) :
              IsDigit(CharAt(filename, j))}

\* re.sub(r'_v\d+\.blend$', '', filename)
alphabetical_key(filename) ==
    LET cuts == VersionSuffixStarts(filename)
    IN  IF cuts = {} THEN filename
        ELSE SubSeq(filename, 1, (CHOOSE i \in cuts : \A j \in cuts : i <= j) - 1)

\* re.search(r"SHOT_(\d+)_v\d+\.blend$", filename): int(group 1), or 0
shot_number_key(filename) ==
    LET found == {m \in (1..Len(filename)) \X (1..Len(filename)) :
                    /\ m[1] + 5 <= m[2]
                    /\ SubSeq(filename, m[1], m[1] + 4) = "SHOT_"
                    /\ m[2] \in VersionSuffixStarts(filename)
                    /\ \A j \in (m[1] + 5)..(m[2] - 1) :
                          IsDigit(CharAt(filename, j))}
    IN  IF found = {} THEN 0
        ELSE LET m == CHOOSE x \in found : \A y \in found : x[1] <= y[1]
             IN  ParseInt(SubSeq(filename, m[1] + 5, m[2] - 1))

\* list.sort(key=...): ascending in key, entries of equal key in the order
\* they had
RECURSIVE StableSort(_, _)
StableSort(names, key) ==
    IF names = << >> THEN << >>
    ELSE LET i == CHOOSE x \in 1..Len(names) :
                    /\ \A j \in 1..Len(names) : key[names[x]] <= key[names[j]]
                    /\ \A j \in 1..(x - 1) : key[names[j]] # key[names[x]]
         IN  <<names[i]>> \o
             StableSort(SubSeq(names, 1, i - 1) \o SubSeq(names, i + 1, Len(names)),
                        key)

\* the place of each name's alphabetical key among the keys of names
AlphabeticalRank(names) ==
    [n \in Range(names) |->
        Cardinality({alphabetical_key(m) : m \in
                        {x \in Range(names) :
                            StrLess(alphabetical_key(x), alphabetical_key(n))}})]

\* stat holds what os.path.getctime and os.path.getsize read; reverse=True
\* keeps entries of equal key in the order they had
_sort_files(names, sort_type, stat) ==
    CASE sort_type = "Alphabetical (A-Z)" ->
            StableSort(names, AlphabeticalRank(names))
      [] sort_type = "Date Created (Newest)" ->
            StableSort(names, [n \in Range(names) |-> 0 - stat.ctime[n]])
      [] sort_type = "Date Created (Oldest)" ->
            StableSort(names, [n \in Range(names) |-> stat.ctime[n]])
      [] sort_type = "File Size (Largest)" ->
            StableSort(names, [n \in Range(names) |-> 0 - stat.size[n]])
      [] sort_type = "File Size (Smallest)" ->
            StableSort(names, [n \in Range(names) |-> stat.size[n]])
      [] sort_type = "Shot Number" ->
            StableSort(names, [n \in Range(names) |-> shot_number_key(n)])
      [] OTHER -> names

\* a filter that compares the search entry as typed
_filter_shots_case_sensitive(shots, search_entry, sort_type, stat) ==
    _sort_files(SelectSeq(shots, LAMBDA shot_name : Contains(search_entry, shot_name)),
                sort_type, stat)

_filter_shots(shots, search_entry, sort_type, stat) ==
    LET search_term == lower(search_entry)
        filtered_shots ==
            SelectSeq(shots, LAMBDA shot_name : Contains(search_term, lower(shot_name)))
    IN  _sort_files(filtered_shots, sort_type, stat)

SortTypes ==
    {"Alphabetical (A-Z)", "Date Created (Newest)", "Date Created (Oldest)",
     "File Size (Largest)", "File Size (Smallest)", "Shot Number"}

\* what is typed into the search entry
SearchEntries == {"", "AB", "shot_", "V02", ".BLEND", "zz"}

\* the shot directories on which the engine is run
FilterDirs ==
    {[x \in {"A.blend", "AB_v01.blend", "A_v01.blend"} |->
         IF x = "A.blend" THEN "OLD" ELSE "TPL"],
     [x \in {"SHOT_010_v01.blend", "SHOT_2_v01.blend", "b_v01.blend"} |->
         IF x = "b_v01.blend" THEN PLACEHOLDER ELSE "TPL"],
     [x \in {"Shot_1_v02.blend", "shot_v02.blend", "xSHOT_7_v1.blend"} |->
         IF x = "shot_v02.blend" THEN "" ELSE PLACEHOLDER]}

\* the creation times the file system may report: one file is newer than
\* the others
CTimes(names) == {[n \in names |-> IF n = x THEN 2 ELSE 1] : x \in names}

\* _filter_shots, on a key release in the search entry or within refresh()
FilterShots(search_entry, sort_type, ctime) ==
    /\ Range(all_shots) \subseteq DOMAIN files
    /\ last' = Last("filter", search_entry, "", sort_type,
                    _filter_shots(all_shots, search_entry, sort_type,
                                  [ctime |-> ctime,
                                   size |-> [n \in DOMAIN files |-> Len(files[n])]]))
    /\ UNCHANGED <<dir_exists, files, templates, meta, orphans, all_shots>>

(***************************************************************************)
(* shotman.py: the Metadata Store, called directly.                        *)
(***************************************************************************)
SaveCustomMetadata(filename, data, fault) ==
    LET w == _save_custom_metadata(filename, data, meta, fault)
    IN  /\ meta' = w.store
        /\ last' = [Last("save", filename,
                         IF w.ok THEN "" ELSE "Error Saving Metadata",
                         IF w.ok THEN "True" ELSE "False", << >>)
                        EXCEPT !.doc = data,
                               !.fault = fault.kind,
                               !.prior = _load_custom_metadata(filename, meta)]
        /\ UNCHANGED <<dir_exists, files, templates, orphans, all_shots>>

LoadCustomMetadata(filename) ==
    /\ last' = [Last("load", filename, "", "", << >>)
                    EXCEPT !.doc = _load_custom_metadata(filename, meta)]
    /\ UNCHANGED <<dir_exists, files, templates, meta, orphans, all_shots>>

DeleteCustomMetadata(filename, fault) ==
    LET m == _delete_custom_metadata(filename, meta, fault)
    IN  /\ meta' = m.store
        /\ last' = [Last("delete_metadata", filename, "",
                         IF m.ok THEN "True" ELSE "False", << >>)
                        EXCEPT !.fault = fault.kind]
        /\ UNCHANGED <<dir_exists, files, templates, orphans, all_shots>>

(***************************************************************************)
(* The specifications.                                                     *)
(*   Spec       the repository driven through its API, I/O faults included *)
(*   SpecCodec  the repository on directories of one base name each, over  *)
(*              every version the two-digit field holds, fault free        *)
(*   SpecGui    the front end, its metadata store, and a direct delete     *)
(*   SpecStore  the metadata store driven through its three methods        *)
(*   SpecFilter the listing engine on refreshed listings                    *)
(*   SpecCli    the repository driven through its API and through the      *)
(*              command line                                               *)
(*   SpecCreate the two creates and the front end's create on the base     *)
(*              names the front end accepts, and the listing               *)
(*   SpecEdit   the edit dialog on a shot whose record may have been       *)
(*              written through the store with further fields              *)
(*   SpecRace   duplicate and delete on the names of a listing taken       *)
(*              before another process changed the directory               *)
(***************************************************************************)
\* the names a direct caller passes to duplicate and delete
CallerNames == (DOMAIN files) \cup AbsentNames

Next ==
    \/ List
    \/ \E b \in BaseNames, f \in WriteFaults : Create(b, f)
    \/ \E b \in BaseNames, t \in TemplatePaths, f \in CopyFaults :
          CreateFromTemplate(b, t, f)
    \/ \E n \in {x \in CallerNames : WithinVersionBound(x)}, f \in CopyFaults :
          Duplicate(n, f)
    \/ \E n \in CallerNames, f \in RemoveFaults : Delete(n, f)

Spec == Init /\ [][Next]_vars

InitCodec ==
    /\ dir_exists = TRUE
    /\ \E n \in CodecBases, k \in CodecVersions :
          files = [x \in {n \o "_v" \o Format02d(k) \o BLEND} |-> "OLD"]
    /\ templates = Empty
    /\ meta = Empty
    /\ orphans = {}
    /\ all_shots = << >>
    /\ last = Last("init", "", "", "", << >>)

NextCodec ==
    /\ \/ \E b \in CodecBases : Create(b, NoFault)
       \/ \E n \in DOMAIN files : Duplicate(n, NoFault)
    /\ Cardinality(DOMAIN files') <= MaxEntries

SpecCodec == InitCodec /\ [][NextCodec]_vars

InitGui ==
    /\ dir_exists \in BOOLEAN
    /\ files = Empty
    /\ templates = [x \in {DEFAULT_TEMPLATE} |-> "TPL"]
    /\ meta = Empty
    /\ orphans = {}
    /\ all_shots = << >>
    /\ last = Last("init", "", "", "", << >>)

\* in the front end's runs a failing copy fails at open()
GuiCopyFaults == {NoFault, OpenFault}

NextGui ==
    \/ Startup
    \/ Refresh
    \/ \E b \in TypedNames, t \in TemplatePaths, f \in GuiCopyFaults :
          OnCreate(b, t, f)
    \/ \E n \in {x \in Range(all_shots) : WithinVersionBound(x)},
          f \in GuiCopyFaults : DuplicateSelected(n, f)
    \/ \E n \in Range(all_shots), f \in RemoveFaults, g \in RemoveFaults :
          DeleteSelected(n, f, g)
    \/ \E n \in Range(all_shots) : UpdateMetadata(n)
    \/ \E n \in Range(all_shots), d \in EditedRecords, f \in WriteFaults :
          EditSave(n, d, f)
    \/ \E n \in Range(all_shots) : EditCancel(n)
    \/ \E n \in DOMAIN files, f \in RemoveFaults : Delete(n, f)

SpecGui == InitGui /\ [][NextGui]_vars

InitStore ==
    /\ dir_exists = TRUE
    /\ files = Empty
    /\ templates = Empty
    /\ meta = Empty
    /\ orphans = {}
    /\ all_shots = << >>
    /\ last = Last("init", "", "", "", << >>)

NextStore ==
    \/ \E n \in StoreNames, d \in StoreRecords, f \in WriteFaults :
          SaveCustomMetadata(n, d, f)
    \/ \E n \in StoreNames : LoadCustomMetadata(n)
    \/ \E n \in StoreNames, f \in RemoveFaults : DeleteCustomMetadata(n, f)

SpecStore == InitStore /\ [][NextStore]_vars

InitFilter ==
    /\ dir_exists = TRUE
    /\ files \in FilterDirs
    /\ templates = Empty
    /\ meta = Empty
    /\ orphans = {}
    /\ all_shots = list_shots([exists |-> TRUE, entries |-> files])
    /\ last = Last("init", "", "", "", << >>)

NextFilter ==
    \E t \in SearchEntries, s \in SortTypes, c \in CTimes(DOMAIN files) :
        FilterShots(t, s, c)

SpecFilter == InitFilter /\ [][NextFilter]_vars

NextCli ==
    \/ Next
    \/ \E a \in CliCommands({x \in CallerNames : WithinVersionBound(x)}) : Cli(a)

SpecCli == Init /\ [][NextCli]_vars

NextCreate ==
    \/ List
    \/ \E b \in AcceptedNames, f \in {NoFault, OpenFault} : Create(b, f)
    \/ \E b \in AcceptedNames, t \in TemplatePaths : CreateFromTemplate(b, t, NoFault)
    \/ \E b \in AcceptedNames, t \in TemplatePaths : OnCreate(b, t, NoFault)

SpecCreate == InitGui /\ [][NextCreate]_vars

InitEdit ==
    /\ dir_exists = TRUE
    /\ files = [x \in {"A_v01.blend", "A_v02.blend"} |-> "TPL"]
    /\ templates = Empty
    /\ meta = Empty
    /\ orphans = {}
    /\ all_shots = list_shots([exists |-> TRUE, entries |-> files])
    /\ last = Last("init", "", "", "", << >>)

NextEdit ==
    \/ \E n \in Range(all_shots), d \in StoreRecords :
          SaveCustomMetadata(n, d, NoFault)
    \/ \E n \in Range(all_shots) : UpdateMetadata(n)
    \/ \E n \in Range(all_shots), d \in EditedRecords, f \in WriteFaults :
          EditSave(n, d, f)
    \/ \E n \in Range(all_shots) : EditCancel(n)

SpecEdit == InitEdit /\ [][NextEdit]_vars

InitRace ==
    /\ dir_exists = TRUE
    /\ files = [x \in {"A_v01.blend", "badname.blend"} |-> "OLD"]
    /\ templates = Empty
    /\ meta = Empty
    /\ orphans = {}
    /\ all_shots = << >>
    /\ last = Last("init", "", "", "", << >>)

NextRace ==
    \/ Refresh
    \/ \E n \in DOMAIN files : ExternalRemove(n)
    \/ \E n \in ExternalNames : ExternalCreate(n)
    \/ \E n \in {x \in Range(all_shots) : WithinVersionBound(x)},
          f \in GuiCopyFaults : Duplicate(n, f)
    \/ \E n \in Range(all_shots), f \in RemoveFaults : Delete(n, f)

SpecRace == InitRace /\ [][NextRace]_vars

(***************************************************************************)
(* The naming convention, stated on its own: <n>_v<k>.blend with k written *)
(* in at least two digits.                                                 *)
(***************************************************************************)
ShotName(n, k) == n \o "_v" \o (IF k < 10 THEN "0" ELSE "") \o Dec(k) \o BLEND

\* name ends with "_v", two decimal digits and ".blend"
HasVersionSuffix(name) ==
    /\ Len(name) >= 10
    /\ SubSeq(name, Len(name) - 9, Len(name) - 8) = "_v"
    /\ IsDigit(CharAt(name, Len(name) - 7))
    /\ IsDigit(CharAt(name, Len(name) - 6))
    /\ SubSeq(name, Len(name) - 5, Len(name)) = ".blend"

\* the names of the codec runs, by base name and version
CodecName == [n \in CodecBases, k \in 1..(HighVersion + 1) |-> ShotName(n, k)]

\* every file that is there before and after a step has kept its bytes
BytesKept == \A n \in DOMAIN files : n \in DOMAIN files' => files'[n] = files[n]

DirectoryUnchanged == files' = files /\ dir_exists' = dir_exists

(***************************************************************************)
(* C1.  No call changes the bytes of a shot file that existed before the   *)
(* call, and a create, create_from_template or duplicate whose target file *)
(* name exists fails instead of writing.                                   *)
(***************************************************************************)
C1_NeverOverwrites ==
    [][ /\ BytesKept
        /\ \A n \in BaseNames :
              /\ last'.op \in {"create", "create_from_template"}
              /\ last'.arg = n
              /\ ShotName(n, 1) \in DOMAIN files
              => last'.err # "" /\ DirectoryUnchanged
        /\ \A n \in BaseNames, k \in 1..MaxVersion :
              /\ last'.op = "duplicate"
              /\ last'.arg = ShotName(n, k)
              /\ ShotName(n, k + 1) \in DOMAIN files
              => last'.err # "" /\ DirectoryUnchanged ]_vars

\* create_from_template was refused on a shot that holds other bytes than
\* the template
C1_Witness ==
    /\ last.op = "create_from_template"
    /\ last.err = "FileExistsError"
    /\ ShotName(last.arg, 1) \in DOMAIN files
    /\ files[ShotName(last.arg, 1)] = PLACEHOLDER

(***************************************************************************)
(* C2.  duplicate of an existing <n>_v<k> whose next-version name is free  *)
(* succeeds, returns exactly <n>_v<k+1> and writes that file and no other. *)
(***************************************************************************)
C2_DuplicateReturnsNextVersion ==
    [][ last'.op = "duplicate" =>
          \A n \in CodecBases, k \in CodecVersions :
             /\ last'.arg = CodecName[n, k]
             /\ CodecName[n, k] \in DOMAIN files
             /\ CodecName[n, k + 1] \notin DOMAIN files
             => /\ last'.err = ""
                /\ last'.ret = CodecName[n, k + 1]
                /\ DOMAIN files' = (DOMAIN files) \cup {CodecName[n, k + 1]}
                /\ BytesKept ]_vars

\* version 09 of a base name that itself ends like a version suffix was
\* duplicated
C2_Witness ==
    /\ last.op = "duplicate"
    /\ last.err = ""
    /\ last.arg = "B_v01_v09.blend"
    /\ last.ret = "B_v01_v10.blend"
    /\ last.ret \in DOMAIN files

(***************************************************************************)
(* C3.  duplicate of an existing <n>_v<k> while <n>_v<k+1> exists reports  *)
(* FileExistsError and leaves the directory as it was: no file is changed  *)
(* and none is created at any version.                                     *)
(***************************************************************************)
C3_TakenTargetIsHardStop ==
    [][ \A n \in BaseNames, k \in 1..MaxVersion :
           /\ last'.op = "duplicate"
           /\ last'.arg = ShotName(n, k)
           /\ ShotName(n, k) \in DOMAIN files
           /\ ShotName(n, k + 1) \in DOMAIN files
           => last'.err = "FileExistsError" /\ DirectoryUnchanged ]_vars

C3_Witness ==
    /\ last.op = "duplicate"
    /\ last.err = "FileExistsError"
    /\ last.arg = ShotName("A", 1)
    /\ {ShotName("A", 1), ShotName("A", 2)} \subseteq DOMAIN files

(***************************************************************************)
(* C4.  create(base_name) on a free name succeeds (barring an I/O failure) *)
(* and writes <base_name>_v01.blend; create(base_name) called again right  *)
(* after fails with FileExistsError and leaves the file byte-identical.    *)
(***************************************************************************)
C4_SecondCreateFails ==
    [][ \A n \in BaseNames :
           /\ (/\ last'.op = "create"
               /\ last'.arg = n
               /\ last'.fault = "none"
               /\ ShotName(n, 1) \notin DOMAIN files)
              => /\ last'.err = ""
                 /\ last'.ret = ShotName(n, 1)
                 /\ files' = Put(files, ShotName(n, 1), PLACEHOLDER)
           /\ (/\ last.op = "create" /\ last.arg = n /\ last.err = ""
               /\ last'.op = "create" /\ last'.arg = n)
              => /\ last'.err = "FileExistsError"
                 /\ DirectoryUnchanged
                 /\ files'[ShotName(n, 1)] = PLACEHOLDER ]_vars

\* create was refused on a shot that an earlier create wrote
C4_Witness ==
    /\ last.op = "create"
    /\ last.err = "FileExistsError"
    /\ ShotName(last.arg, 1) \in DOMAIN files
    /\ files[ShotName(last.arg, 1)] = PLACEHOLDER

(***************************************************************************)
(* C5.  The name returned by a successful create(base_name) is matched by  *)
(* duplicate's versioning pattern, and parses to (base_name, 1).           *)
(***************************************************************************)
C5_CreateThenParse ==
    (last.op = "create" /\ last.err = "")
        => /\ VersionMatch(last.ret).matched
           /\ VersionMatch(last.ret).base_name = last.arg
           /\ ParseInt(VersionMatch(last.ret).version) = 1

C5_Witness ==
    /\ last.op = "create"
    /\ last.err = ""
    /\ last.arg = "B_v01"
    /\ last.ret \in DOMAIN files

(***************************************************************************)
(* C6.  The codec round-trips at every version: the name that a successful *)
(* duplicate of <n>_v<k> returns parses to (n, k+1), for k = 99 too, so    *)
(* that the new file can itself be duplicated.                             *)
(***************************************************************************)
C6_CodecRoundTrips ==
    (last.op = "duplicate" /\ last.err = "") =>
        \A n \in CodecBases, k \in CodecVersions :
            last.arg = CodecName[n, k]
                => /\ VersionMatch(last.ret).matched
                   /\ VersionMatch(last.ret).base_name = n
                   /\ ParseInt(VersionMatch(last.ret).version) = k + 1

(***************************************************************************)
(* C7.  duplicate of a name without the version suffix fails with          *)
(* ValueError and leaves the directory as it was, whether or not a file of *)
(* that name exists.                                                       *)
(***************************************************************************)
C7_BadNameRejected ==
    [][ (last'.op = "duplicate" /\ ~HasVersionSuffix(last'.arg))
            => last'.err = "ValueError" /\ DirectoryUnchanged ]_vars

\* the rejected name is the name of an existing file
C7_Witness ==
    /\ last.op = "duplicate"
    /\ last.err = "ValueError"
    /\ last.arg \in DOMAIN files

(***************************************************************************)
(* C8.  delete of an existing file removes (barring an I/O failure of the  *)
(* removal) exactly that file and leaves every other entry as it was;      *)
(* delete of an absent file fails with FileNotFoundError and changes       *)
(* nothing.                                                                *)
(***************************************************************************)
C8_DeleteExactlyOne ==
    [][ last'.op = "delete" =>
            IF dir_exists /\ last'.arg \in DOMAIN files
            THEN IF last'.fault = "none"
                 THEN /\ last'.err = ""
                      /\ files' = Remove(files, last'.arg)
                      /\ dir_exists' = dir_exists
                 ELSE last'.err # "" /\ DirectoryUnchanged
            ELSE last'.err = "FileNotFoundError" /\ DirectoryUnchanged ]_vars

\* a delete went through, other entries remain, and the same delete would
\* now find no file
C8_Witness ==
    /\ last.op = "delete"
    /\ last.err = ""
    /\ last.arg \notin DOMAIN files
    /\ files # Empty

(***************************************************************************)
(* C9.  list() returns exactly the entries that end with ".blend" and do   *)
(* not start with "cam_template_", each once, and the empty sequence when  *)
(* the shot directory does not exist.                                      *)
(***************************************************************************)
C9_ListExactlyTheShots ==
    last.op = "list" =>
        /\ last.err = ""
        /\ Range(last.listing) =
              {f \in DOMAIN files :
                  dir_exists /\ EndsWith(f, BLEND) /\ ~StartsWith(f, TEMPLATE_PREFIX)}
        /\ Len(last.listing) = Cardinality(Range(last.listing))
        /\ (~dir_exists => last.listing = << >>)

\* a listing of a directory that also holds a template-named entry and an
\* entry of another extension
C9_Witness ==
    /\ last.op = "list"
    /\ last.listing # << >>
    /\ \E f \in DOMAIN files : StartsWith(f, TEMPLATE_PREFIX) /\ EndsWith(f, BLEND)
    /\ \E f \in DOMAIN files : ~EndsWith(f, BLEND)

(***************************************************************************)
(* C10.  An orphaned metadata record is never surfaced: no file returned   *)
(* by list() loads a record that was saved for a shot file removed since.  *)
(***************************************************************************)
C10_OrphanNeverSurfaced ==
    \A f \in Range(list_shots(ShotDir)) :
        (/\ _get_custom_metadata_path(f) \in DOMAIN meta
         /\ meta[_get_custom_metadata_path(f)].ok)
            => _get_custom_metadata_path(f) \notin orphans

(***************************************************************************)
(* C11.  Whenever the front end's delete of a shot completes successfully  *)
(* (the shot file is removed), no metadata record keyed by that shot's     *)
(* file name without extension exists afterwards.                          *)
(***************************************************************************)
C11_DeleteCascades ==
    [][ (last'.op = "delete_selected" /\ last'.err = "")
            => _get_custom_metadata_path(last'.arg) \notin DOMAIN meta' ]_vars

(***************************************************************************)
(* C12.  A metadata record comes into existence, or changes its contents,  *)
(* only through a metadata save of the edit dialog: every other step       *)
(* (refresh/list, create from template, duplicate, delete, showing the     *)
(* metadata, a cancelled edit) leaves each record that exists after it     *)
(* exactly as it was before, so it can only remove records; in particular  *)
(* duplicate gives the new version no record.                              *)
(***************************************************************************)
C12_RecordsOnlyFromSave ==
    [][ last'.op # "edit_save" =>
            \A k \in DOMAIN meta' : k \in DOMAIN meta /\ meta'[k] = meta[k] ]_vars

\* a shot that has a saved record was duplicated, and the new version has
\* no record
C12_Witness ==
    /\ last.op = "duplicate_selected"
    /\ last.err = ""
    /\ _get_custom_metadata_path(last.arg) \in DOMAIN meta
    /\ meta[_get_custom_metadata_path(last.arg)].ok
    /\ _get_custom_metadata_path(last.ret) \notin DOMAIN meta

(***************************************************************************)
(* C13.  For every key and every record R made of the four recognized      *)
(* fields and any further string fields, a successful save(key, R)         *)
(* followed by load(key) returns a record equal to R.                      *)
(***************************************************************************)
C13_SaveThenLoad ==
    [][ (last'.op = "save" /\ last'.err = "")
            => _load_custom_metadata(last'.arg, meta') = last'.doc ]_vars

\* a record with a further field, and text that JSON escapes, was saved
C13_Witness ==
    /\ last.op = "save"
    /\ last.err = ""
    /\ RecognizedFields \subseteq DOMAIN last.doc
    /\ \E k \in DOMAIN last.doc :
          k \notin RecognizedFields /\ encode_basestring(last.doc[k]) # last.doc[k]
    /\ _load_custom_metadata(last.arg, meta) = last.doc

(***************************************************************************)
(* C14.  Loading the metadata of a key that has no backing file returns    *)
(* the empty record and no error; loading a malformed backing file returns *)
(* an error record that is not the empty record and that the metadata pane *)
(* does not show as "No custom metadata.".                                 *)
(***************************************************************************)
C14_MissingIsEmptyMalformedIsError ==
    (last.op = "update_metadata" /\ last.ret # "") =>
        LET key == _get_custom_metadata_path(last.arg)
        IN  /\ key \notin DOMAIN meta =>
                  /\ last.doc = Empty
                  /\ last.err = ""
                  /\ last.ret = NO_CUSTOM_METADATA
            /\ (key \in DOMAIN meta /\ ~meta[key].ok) =>
                  /\ last.doc # Empty
                  /\ "error" \in DOMAIN last.doc
                  /\ last.ret # NO_CUSTOM_METADATA

\* the pane showed a shot whose backing file is cut short
C14_Witness ==
    /\ last.op = "update_metadata"
    /\ _get_custom_metadata_path(last.arg) \in DOMAIN meta
    /\ ~meta[_get_custom_metadata_path(last.arg)].ok
    /\ last.doc = ErrorRecord

(***************************************************************************)
(* C15.  A save overwrites and does not merge: after a successful save of  *)
(* R2 under a key that already held a record R1, load returns exactly R2   *)
(* (every field it has is a field of R2 with R2's value, and no field of   *)
(* R1 survives otherwise), and the backing files of all other keys are as  *)
(* they were.                                                              *)
(***************************************************************************)
C15_SaveOverwrites ==
    [][ (last'.op = "save" /\ last'.err = "") =>
            LET key == _get_custom_metadata_path(last'.arg)
                loaded == _load_custom_metadata(last'.arg, meta')
            IN  /\ DOMAIN loaded = DOMAIN last'.doc
                /\ \A f \in DOMAIN loaded : loaded[f] = last'.doc[f]
                /\ DOMAIN meta' = DOMAIN meta \cup {key}
                /\ \A k \in DOMAIN meta \ {key} : meta'[k] = meta[k] ]_vars

\* a record was saved over one that had a field the new record lacks,
\* while another key holds a record
C15_Witness ==
    /\ last.op = "save"
    /\ last.err = ""
    /\ \E f \in DOMAIN last.prior : f \notin DOMAIN last.doc
    /\ "error" \notin DOMAIN last.prior
    /\ DOMAIN meta # {_get_custom_metadata_path(last.arg)}
    /\ DOMAIN _load_custom_metadata(last.arg, meta) = DOMAIN last.doc

(***************************************************************************)
(* C16.  Deleting the metadata of a key returns true exactly when a        *)
(* backing file for the key existed at the call, and then the backing file *)
(* is absent afterwards; when none existed it returns false and the store  *)
(* is unchanged.                                                           *)
(***************************************************************************)
C16_DeleteReportsExistence ==
    [][ last'.op = "delete_metadata" =>
            LET key == _get_custom_metadata_path(last'.arg)
            IN  IF key \in DOMAIN meta
                THEN last'.ret = "True" /\ key \notin DOMAIN meta'
                ELSE last'.ret = "False" /\ meta' = meta ]_vars

(***************************************************************************)
(* C17.  As claimed: for every listing and every search term t, the        *)
(* sequence shown to the user is the listing narrowed to the entries whose *)
(* name contains t without regard to case, in the listing's own order; the *)
(* empty term keeps every entry.                                           *)
(***************************************************************************)
C17_ShownIsSubsequence ==
    last.op = "filter" =>
        /\ last.listing =
              SelectSeq(all_shots,
                        LAMBDA n : Contains(lower(last.arg), lower(n)))
        /\ (last.arg = "" => last.listing = all_shots)

(***************************************************************************)
(* C17, amended.  The sequence shown to the user holds exactly the entries *)
(* of the listing whose name contains t without regard to case, each once, *)
(* in the order of the sort mode, which need not be the listing's; the     *)
(* empty term keeps every entry.                                           *)
(***************************************************************************)
C17_ShownIsTheMatches ==
    last.op = "filter" =>
        /\ Range(last.listing) =
              {n \in Range(all_shots) : Contains(lower(last.arg), lower(n))}
        /\ Len(last.listing) = Cardinality(Range(last.listing))
        /\ (last.arg = "" => Range(last.listing) = Range(all_shots))

\* a term typed in another case than the name's matched one entry and left
\* another out
C17_Witness ==
    /\ last.op = "filter"
    /\ last.arg # lower(last.arg)
    /\ last.listing # << >>
    /\ Range(last.listing) # Range(all_shots)

(***************************************************************************)
(* C18.  The repository fails closed: whenever create, create_from_template *)
(* or duplicate reports a failure, a failure of the write or copy partway  *)
(* included, it leaves no file behind: the directory holds the files it    *)
(* held before, with their bytes, and so lists no shot it did not list.    *)
(***************************************************************************)
C18_FailsClosed ==
    [][ (/\ last'.op \in {"create", "create_from_template", "duplicate"}
         /\ last'.err # "")
            => /\ files' = files
               /\ list_shots([exists |-> dir_exists', entries |-> files'])
                     = list_shots(ShotDir) ]_vars

(***************************************************************************)
(* C19.  create_from_template(base_name, template_path) fails with         *)
(* FileNotFoundError when the template does not exist, and with            *)
(* FileExistsError when the template exists and <base_name>_v01.blend is   *)
(* there, in both cases writing no shot file; otherwise, when the copy     *)
(* itself does not fail, it creates <base_name>_v01.blend with the         *)
(* template's bytes and returns its name.  The template is left unchanged. *)
(***************************************************************************)
C19_CreateFromTemplate ==
    [][ last'.op = "create_from_template" =>
            LET target == last'.arg \o "_v01" \o BLEND
            IN  /\ templates' = templates
                /\ IF last'.path \notin DOMAIN templates
                   THEN last'.err = "FileNotFoundError" /\ files' = files
                   ELSE IF dir_exists /\ target \in DOMAIN files
                   THEN last'.err = "FileExistsError" /\ files' = files
                   ELSE last'.fault = "none" =>
                           /\ last'.err = ""
                           /\ last'.ret = target
                           /\ files' = Put(files, target, templates[last'.path]) ]_vars

\* a shot was created from a template and holds the template's bytes, next
\* to other entries
C19_Witness ==
    /\ last.op = "create_from_template"
    /\ last.err = ""
    /\ last.path \in DOMAIN templates
    /\ files[last.ret] = templates[last.path]
    /\ DOMAIN files # {last.ret}

(***************************************************************************)
(* C20.  After a successful duplicate of <n>_v<k>.blend the new file has   *)
(* the source's bytes, the source is still there with the bytes it had,    *)
(* and no other file of the directory is added, removed or changed.        *)
(***************************************************************************)
C20_DuplicateAddsOneCopy ==
    [][ (last'.op = "duplicate" /\ last'.err = "") =>
            /\ last'.arg \in DOMAIN files
            /\ last'.ret \notin DOMAIN files
            /\ last'.ret # last'.arg
            /\ DOMAIN files' = DOMAIN files \cup {last'.ret}
            /\ files'[last'.ret] = files[last'.arg]
            /\ \A n \in DOMAIN files : files'[n] = files[n] ]_vars

\* a shot was duplicated in a directory that holds other entries as well
C20_Witness ==
    /\ last.op = "duplicate"
    /\ last.err = ""
    /\ last.arg \in DOMAIN files
    /\ files[last.ret] = files[last.arg]
    /\ Cardinality(DOMAIN files) > 2

\* the names of the race runs, by version
RaceName == [k \in 1..(MaxVersion + 2) |-> ShotName("A", k)]

(***************************************************************************)
(* C21.  When another process changes the shot directory between a listing *)
(* and the next call, the call reports the matching error and changes      *)
(* nothing: duplicate or delete of a listed shot file that was removed     *)
(* meanwhile fails with FileNotFoundError, and duplicate of a listed shot  *)
(* file whose next version was created meanwhile fails with                *)
(* FileExistsError.                                                        *)
(***************************************************************************)
C21_RaceSurfacesError ==
    [][ /\ (/\ last'.op \in {"duplicate", "delete"}
            /\ last'.arg \in Range(all_shots)
            /\ last'.arg \notin DOMAIN files
            /\ \E k \in 1..(MaxVersion + 1) : last'.arg = RaceName[k])
               => last'.err = "FileNotFoundError" /\ DirectoryUnchanged
        /\ (/\ last'.op = "duplicate"
            /\ last'.arg \in Range(all_shots)
            /\ last'.arg \in DOMAIN files
            /\ \E k \in 1..(MaxVersion + 1) :
                  /\ last'.arg = RaceName[k]
                  /\ RaceName[k + 1] \in DOMAIN files
                  /\ RaceName[k + 1] \notin Range(all_shots))
               => last'.err = "FileExistsError" /\ DirectoryUnchanged ]_vars

\* duplicate was called on a listed name whose file another process had
\* removed, while the next version's file is there
C21_Witness ==
    /\ last.op = "duplicate"
    /\ last.err = "FileNotFoundError"
    /\ last.arg \in Range(all_shots)
    /\ last.arg \notin DOMAIN files
    /\ files # Empty

(***************************************************************************)
(* C22.  Each command of the command line (create <name>, list, duplicate  *)
(* <filename>, delete <filename>) leaves the shot directory as the         *)
(* repository operation of the same argument would leave it, and reports   *)
(* that operation's error, or none when it has none.                       *)
(***************************************************************************)
C22_CliMatchesRepository ==
    [][ /\ last'.op = "cli_create" =>
              LET r == create_new_shot(last'.arg, ShotDir, NoFault)
              IN  /\ files' = r.dir.entries
                  /\ dir_exists' = r.dir.exists
                  /\ last'.err = r.err
        /\ last'.op = "cli_list" => DirectoryUnchanged /\ last'.err = ""
        /\ last'.op = "cli_duplicate" =>
              LET r == duplicate_shot(last'.arg, ShotDir, NoFault)
              IN  /\ files' = r.dir.entries
                  /\ dir_exists' = r.dir.exists
                  /\ last'.err = r.err
        /\ last'.op = "cli_delete" =>
              LET r == delete_shot(last'.arg, ShotDir, NoFault)
              IN  /\ files' = r.dir.entries
                  /\ dir_exists' = r.dir.exists
                  /\ last'.err = r.err ]_vars

(***************************************************************************)
(* C23.  After every successful create or create_from_template with a base *)
(* name that the front end accepts (letters, digits, underscores), the     *)
(* name returned is in the listing of the directory as the call leaves it: *)
(* every shot the tool creates is visible in the listing.                  *)
(***************************************************************************)
C23_CreatedIsListed ==
    [][ (/\ last'.op \in {"create", "create_from_template", "on_create"}
         /\ last'.err = ""
         /\ ValidShotName(last'.arg))
            => last'.ret \in
                  Range(list_shots([exists |-> dir_exists', entries |-> files'])) ]_vars

(***************************************************************************)
(* C24.  duplicate tests its failure conditions in a fixed order: the name *)
(* pattern, then the source, then the target.  A name without a version    *)
(* suffix gives ValueError even when the file exists; a missing source     *)
(* gives FileNotFoundError even when the next version's file exists, never *)
(* FileExistsError; a taken target gives FileExistsError only when the     *)
(* source is there.                                                        *)
(***************************************************************************)
C24_DuplicateCheckOrder ==
    [][ last'.op = "duplicate" =>
            IF ~HasVersionSuffix(last'.arg)
            THEN last'.err = "ValueError"
            ELSE IF last'.arg \notin DOMAIN files
            THEN last'.err = "FileNotFoundError"
            ELSE (\E k \in 1..(MaxVersion + 1) :
                      /\ last'.arg = RaceName[k]
                      /\ RaceName[k + 1] \in DOMAIN files)
                    => last'.err = "FileExistsError" ]_vars

\* duplicate was called on a missing source whose next version is there,
\* in a directory that also holds a file without a version suffix
C24_Witness ==
    /\ last.op = "duplicate"
    /\ last.err = "FileNotFoundError"
    /\ \E k \in 1..(MaxVersion + 1) :
          /\ last.arg = RaceName[k]
          /\ RaceName[k] \notin DOMAIN files
          /\ RaceName[k + 1] \in DOMAIN files
    /\ "badname.blend" \in DOMAIN files

(***************************************************************************)
(* C25.  In the front end's delete the metadata record is removed only     *)
(* after the shot file was removed: when removing the shot file fails,     *)
(* because the file is absent or because of an I/O error, the metadata     *)
(* store is left as it was, and a delete that goes through touches no      *)
(* record but the shot's own.                                              *)
(***************************************************************************)
C25_RecordOutlivesFailedDelete ==
    [][ last'.op = "delete_selected" =>
            IF last'.err # ""
            THEN meta' = meta /\ files' = files
            ELSE /\ last'.arg \notin DOMAIN files'
                 /\ \A k \in DOMAIN meta \ {_get_custom_metadata_path(last'.arg)} :
                       k \in DOMAIN meta' /\ meta'[k] = meta[k] ]_vars

\* the delete of a shot that has a saved record failed, and the record is
\* still there
C25_Witness ==
    /\ last.op = "delete_selected"
    /\ last.err = "Exception"
    /\ last.arg \in DOMAIN files
    /\ _get_custom_metadata_path(last.arg) \in DOMAIN meta
    /\ meta[_get_custom_metadata_path(last.arg)].ok

(***************************************************************************)
(* C26.  The metadata edit never overwrites a backing file it could not    *)
(* read: when the load gives a record with the key "error", the edit is    *)
(* refused before any save, so a backing file that does not parse stays as *)
(* it is until the front end's delete of its shot removes it.              *)
(***************************************************************************)
C26_UnreadableNeverOverwritten ==
    [][ /\ (/\ last'.op = "edit_save"
            /\ "error" \in DOMAIN _load_custom_metadata(last'.arg, meta))
               => last'.err = "Metadata Error" /\ meta' = meta
        /\ \A k \in DOMAIN meta :
              ~meta[k].ok =>
                  \/ k \in DOMAIN meta' /\ meta'[k] = meta[k]
                  \/ /\ k \notin DOMAIN meta'
                     /\ last'.op = "delete_selected"
                     /\ _get_custom_metadata_path(last'.arg) = k ]_vars

\* an edit of a shot whose backing file does not parse was refused
C26_Witness ==
    /\ last.op = "edit_save"
    /\ last.err = "Metadata Error"
    /\ _get_custom_metadata_path(last.arg) \in DOMAIN meta
    /\ ~meta[_get_custom_metadata_path(last.arg)].ok
    /\ "error" \in DOMAIN _load_custom_metadata(last.arg, meta)

(***************************************************************************)
(* C27.  After the edit dialog was saved for a shot, the stored record has *)
(* exactly the four recognized keys, with the dialog's values, whatever    *)
(* the record held before: a further field of the prior record is gone.    *)
(***************************************************************************)
C27_EditStoresFourKeys ==
    [][ (last'.op = "edit_save" /\ last'.err = "") =>
            LET stored == _load_custom_metadata(last'.arg, meta')
            IN  /\ DOMAIN stored = RecognizedFields
                /\ \A f \in RecognizedFields : stored[f] = last'.doc[f] ]_vars

\* the dialog was saved over a record that held further fields
C27_Witness ==
    /\ last.op = "edit_save"
    /\ last.err = ""
    /\ \E f \in DOMAIN last.prior : f \notin RecognizedFields
    /\ DOMAIN _load_custom_metadata(last.arg, meta) = RecognizedFields

====
